---- MODULE Spec2Model ----
(***************************************************************************)
(* Model of the whyyoulittle request throttle (lib/throttle.js, the second *)
(* and effective definition of Throttle, wait and afterRequest) on top of *)
(* a vasync work queue.                                                    *)
(*                                                                         *)
(* A "unit" is one call of wait(req, res, next); units are numbered in the *)
(* order wait is called.  The request id of a unit is what req.getId()     *)
(* returns, and the transport may hand the same id to several requests.    *)
(***************************************************************************)
EXTENDS Integers, Sequences, FiniteSets

\* ---- bounds of the model
MaxUnits == 4
NumReqIds == 2
MaxExtraCalls == 1
MaxConcurrency == 2
MaxTolerance == 2
MaxHalves == 4

ReqIds == 1..NumReqIds
Units == 1..MaxUnits

VARIABLES
    ctor,             \* the options createThrottle was given, and its result
    concurrency,      \* this.concurrency
    queueTolerance,   \* this.queueTolerance, as the least queue length that
                      \* is >= it (the number itself when it is whole)
    queued,           \* requestQueue.queued: units pushed and not dispatched
    npending,         \* requestQueue.npending
    pending,          \* requestQueue.pending: units holding a slot
    immediates,       \* dispatched units whose worker call is still scheduled
    taskCbFromReqId,  \* this.taskCbFromReqId: request id -> unit whose taskCb it is
    reqs,             \* reqs[u]: the request id of unit u
    outcome,          \* outcome[u]: "admitted" or "throttled", what wait did
    startOrder,       \* units in the order their doTask ran (next() called)
    reported,         \* units for which afterRequest was called once started
    extraCalls,       \* afterRequest calls made for units not in flight
    nextCalls,        \* nextCalls[u]: the calls of unit u's next, "err" or "ok"
    fired,            \* fired[u]: the probe events delivered for unit u's req
    events,           \* events[u]: the names of these events, in order
    last              \* the last operation and what it did

vars == <<ctor, concurrency, queueTolerance, queued, npending, pending, immediates,
          taskCbFromReqId, reqs, outcome, startOrder, reported, extraCalls,
          nextCalls, fired, events, last>>

Range(s) == {s[i] : i \in 1..Len(s)}

\* Units whose doTask has run: next() was called without an error.
Started == Range(startOrder)

\* Units handed to the caller whose completion has not been reported yet.
InFlight == Started \ reported

\* ---- Throttle constructor

\* Option values: a number, written in halves (3 is 1.5), or a string.
Num(h) == [type |-> "number", halves |-> h]
OptionValues == {Num(h) : h \in (-1)..MaxHalves} \cup
                {[type |-> "string", halves |-> 0]}

\* assert.number(options.concurrency), assert.number(options.queueTolerance)
IsNumber(v) == v.type = "number"

\* assert.ok(options.concurrency > 0), assert.ok(options.queueTolerance > 0)
ValidOptions(c, t) == c > 0 /\ t > 0

\* vasync's WorkQueue constructor on its concurrency argument:
\* Math.floor(concurrency) == concurrency and concurrency > 0.
WorkQueueAccepts(v) == v.halves % 2 = 0 /\ v.halves > 0

\* The assertions of the constructor and of the queue it creates, in
\* order; the first that fails throws.
CtorAccepts(o) ==
    /\ IsNumber(o.concurrency)
    /\ IsNumber(o.queueTolerance)
    /\ ValidOptions(o.concurrency.halves, o.queueTolerance.halves)
    /\ WorkQueueAccepts(o.concurrency)

\* The least queue length qlen with qlen >= v, for a positive number v.
LeastLengthAtLeast(v) == (v.halves + 1) \div 2

\* this.dtp = options.dtp; if (this.dtp) { this.throttle_probes = ... }
ThrottleProbes == ctor.dtp # "undefined"

\* A probe's fire throws only when the provider is a faulty one.
ProbeThrows == IF ctor.dtp = "faulty" THEN BOOLEAN ELSE {FALSE}

NoProbe == [name |-> "none", inflight |-> 0, qlen |-> 0]

\* throttle_probes[name].fire(...), with the counters it hands over.
Fire(name, inflight, qlen) ==
    IF ThrottleProbes
    THEN [name |-> name, inflight |-> inflight, qlen |-> qlen]
    ELSE NoProbe

NoEvents == [request_throttled |-> 0, request_handled |-> 0]

\* The events of unit u with the event of probe p added, if p was fired.
Logged(e, u, p) ==
    IF p.name = "none" THEN e ELSE [e EXCEPT ![u] = Append(@, p.name)]

\* Mutant of QueueConcurrency: the queue is given the tolerance as extra slots.
QueueConcurrencyWithTolerance == concurrency + queueTolerance

\* vasync.queue(worker, this.concurrency): the slots of the request queue
QueueConcurrency == concurrency

\* The state of a throttle with nothing in it.
Empty ==
    /\ queued = <<>>
    /\ npending = 0
    /\ pending = {}
    /\ immediates = <<>>
    /\ taskCbFromReqId = <<>>
    /\ reqs = <<>>
    /\ outcome = <<>>
    /\ startOrder = <<>>
    /\ reported = {}
    /\ extraCalls = 0
    /\ nextCalls = <<>>
    /\ fired = <<>>
    /\ events = <<>>

\* The state after createThrottle({concurrency: c, queueTolerance: t,
\* dtp: d}) for whole numbers c and t.
InitWith(d) ==
    /\ concurrency \in 1..MaxConcurrency
    /\ queueTolerance \in 1..MaxTolerance
    /\ ValidOptions(concurrency, queueTolerance)
    /\ ctor = [concurrency |-> Num(2 * concurrency),
               queueTolerance |-> Num(2 * queueTolerance),
               createThrottledError |-> "undefined", dtp |-> d,
               result |-> "created"]
    /\ Empty
    /\ last = [op |-> "create", unit |-> 0, result |-> "created", log |-> "none",
               ret |-> "throttle", probe |-> NoProbe]

Init == InitWith("undefined")

\* Before createThrottle(options) is called, for any options.
InitCreate ==
    /\ ctor \in [concurrency : OptionValues, queueTolerance : OptionValues,
                  createThrottledError : {"undefined", "function"},
                  dtp : {"undefined"}, result : {"pending"}]
    /\ concurrency = 0
    /\ queueTolerance = 0
    /\ Empty
    /\ last = [op |-> "none", unit |-> 0, result |-> "none", log |-> "none",
               ret |-> "none", probe |-> NoProbe]

\* createThrottle(options): new Throttle(options).
Create ==
    /\ ctor.result = "pending"
    /\ IF CtorAccepts(ctor)
       THEN /\ ctor' = [ctor EXCEPT !.result = "created"]
            /\ concurrency' = ctor.concurrency.halves \div 2
            /\ queueTolerance' = LeastLengthAtLeast(ctor.queueTolerance)
            /\ last' = [op |-> "create", unit |-> 0, result |-> "created",
                        log |-> "none", ret |-> "throttle", probe |-> NoProbe]
       ELSE /\ ctor' = [ctor EXCEPT !.result = "threw"]
            /\ last' = [op |-> "create", unit |-> 0, result |-> "threw",
                        log |-> "none", ret |-> "throw", probe |-> NoProbe]
            /\ UNCHANGED <<concurrency, queueTolerance>>
    /\ UNCHANGED <<queued, npending, pending, immediates, taskCbFromReqId,
                   reqs, outcome, startOrder, reported, extraCalls, nextCalls,
                   fired, events>>

\* ---- the vasync work queue

\* WorkQueue.dispatch(entry): take a slot and schedule the worker call.
Dispatch(q, u) ==
    [q EXCEPT !.npending = @ + 1,
              !.pending = @ \cup {u},
              !.immediates = Append(@, u)]

\* Mutant of Shift: the newest entry is taken, queued.pop().
ShiftNewest(list) ==
    [entry |-> list[Len(list)], rest |-> SubSeq(list, 1, Len(list) - 1)]

\* The entry dispatchNext takes from the queued list: queued.shift().
Shift(list) == [entry |-> Head(list), rest |-> Tail(list)]

\* WorkQueue.dispatchNext(): while there is a queued entry and a free slot,
\* shift the head of the queued list and dispatch it.
RECURSIVE DispatchNext(_)
DispatchNext(q) ==
    IF Len(q.queued) > 0 /\ q.npending < QueueConcurrency
    THEN DispatchNext(Dispatch([q EXCEPT !.queued = Shift(@).rest],
                               Shift(q.queued).entry))
    ELSE q

\* WorkQueue.push(task): append the entry, then dispatchNext().
Push(q, u) == DispatchNext([q EXCEPT !.queued = Append(@, u)])

\* Mutant of TaskCb: the slot is given back without dispatchNext().
TaskCbNoDispatch(q, u) == [q EXCEPT !.npending = @ - 1, !.pending = @ \ {u}]

\* The callback the queue hands to the worker (taskCb of unit u):
\* --npending, delete pending[id], dispatchNext().
TaskCb(q, u) ==
    DispatchNext([q EXCEPT !.npending = @ - 1, !.pending = @ \ {u}])

Queue == [queued |-> queued, npending |-> npending, pending |-> pending,
          immediates |-> immediates]

SetQueue(q) ==
    /\ queued' = q.queued
    /\ npending' = q.npending
    /\ pending' = q.pending
    /\ immediates' = q.immediates

\* ---- Throttle.prototype.wait

\* Request ids are only compared for equality, so a new request carries an
\* id already seen or the least id not seen yet.
FreshOrUsed == {r \in ReqIds : \A k \in 1..(r - 1) : k \in Range(reqs)}

\* Mutant of Throttled: the comparison is strict.
ThrottledStrict(qlen, inflight) == qlen > queueTolerance

\* Mutant of Throttled: the running requests are counted with the queued.
ThrottledOnTotal(qlen, inflight) == qlen + inflight >= queueTolerance

\* var qlen = requestQueue.length(); var inflight = requestQueue.npending;
\* if (qlen >= self.queueTolerance)
Throttled(qlen, inflight) == qlen >= queueTolerance

\* Mutant of AfterReject: the return is missing and the rejected request
\* falls through to the push.
RejectFallsThrough(q, u) == Push(q, u)

\* What the rejecting branch does to the queue: next(err); return; nothing
\* is pushed.
AfterReject(q, u) == q

\* The error the rejecting branch hands to next: new VError({name:
\* 'ThrottledError'}, ...), whatever the options were.
RejectionCall == "next(ThrottledError)"

\* wait(req, res, next) for a new request with id r; throws: the probe
\* fired on the way throws.
Wait(r, throws) ==
    /\ ctor.result = "created"
    /\ Len(reqs) < MaxUnits
    /\ LET u == Len(reqs) + 1
           qlen == Len(queued)
           inflight == npending
           rejects == Throttled(qlen, inflight)
       IN /\ reqs' = Append(reqs, r)
          /\ IF throws
             THEN /\ outcome' = Append(outcome, "threw")
                  /\ nextCalls' = Append(nextCalls, <<>>)
                  /\ fired' = Append(fired, NoEvents)
                  /\ events' = Append(events, <<>>)
                  /\ last' = [op |-> "wait", unit |-> u, result |-> "threw",
                              log |-> IF rejects THEN "request_throttled"
                                                 ELSE "queue_enter",
                              ret |-> "throw", probe |-> NoProbe]
                  /\ SetQueue(Queue)
             ELSE IF rejects
             THEN /\ outcome' = Append(outcome, "throttled")
                  /\ nextCalls' = Append(nextCalls, <<"err">>)
                  /\ fired' = Append(fired,
                         [NoEvents EXCEPT !.request_throttled =
                             IF ThrottleProbes THEN 1 ELSE 0])
                  /\ events' = Logged(Append(events, <<>>), u,
                         Fire("request_throttled", inflight, qlen))
                  /\ last' = [op |-> "wait", unit |-> u, result |-> "throttled",
                              log |-> "request_throttled",
                              ret |-> RejectionCall,
                              probe |-> Fire("request_throttled", inflight,
                                             qlen)]
                  /\ SetQueue(AfterReject(Queue, u))
             ELSE /\ outcome' = Append(outcome, "admitted")
                  /\ nextCalls' = Append(nextCalls, <<>>)
                  /\ fired' = Append(fired, NoEvents)
                  /\ events' = Logged(Append(events, <<>>), u,
                         Fire("queue_enter", 0, 0))
                  /\ last' = [op |-> "wait", unit |-> u, result |-> "admitted",
                              log |-> "queue_enter", ret |-> "undefined",
                              probe |-> Fire("queue_enter", 0, 0)]
                  /\ SetQueue(Push(Queue, u))
    /\ UNCHANGED <<ctor, concurrency, queueTolerance, taskCbFromReqId,
                   startOrder, reported, extraCalls>>

\* ---- doTask, run by the queue's worker on a later tick: its parts

\* self.taskCbFromReqId[req_id] = taskCb
StoreTaskCb(m, r, u) ==
    [k \in (DOMAIN m) \cup {r} |-> IF k = r THEN u ELSE m[k]]

\* Mutant of DoTaskRelease: doTask calls the queue's callback right after
\* next(), as the earlier definition of wait did.
DoTaskReleasesSlot(q, u) == TaskCb(q, u)

\* What doTask does to the queue after next(): nothing, the slot is kept
\* until afterRequest calls taskCb.
DoTaskRelease(q, u) == q

\* ---- Throttle.prototype.afterRequest

\* var taskCb = self.taskCbFromReqId[reqId]; if (!taskCb)
NoTaskCb(m, r) == r \notin DOMAIN m

\* Mutant of DeleteTaskCb: the entry is left in the map.
KeepTaskCb(m, r) == m

\* delete self.taskCbFromReqId[reqId]
DeleteTaskCb(m, r) == [k \in (DOMAIN m) \ {r} |-> m[k]]

\* Mutant of NoTaskCbReport: the call returns without a word.
NoTaskCbSilent == [log |-> "none", ret |-> "undefined"]

\* What the call without a taskCb writes and returns: console.log of a
\* warning, then a plain return.
NoTaskCbReport ==
    [log |-> "warning: no taskCb for reqId", ret |-> "undefined"]

\* Mutant of ProbeQueue: the probe is fired after taskCb().
ProbeQueueAfterRelease(q, released) == released

\* The queue the request_handled probe reads its counters from: qlen is
\* read and the probe fired before taskCb() is called.
ProbeQueue(q, released) == q

\* The body of afterRequest for request id r on the taskCb entries m and
\* the queue q: without an entry, warn and return; with one, delete it,
\* fire request_handled and call it.  throws: the probe's fire throws, and
\* the call ends there.
AfterRequestOn(m, q, r, throws) ==
    IF NoTaskCb(m, r)
    THEN [m |-> m, q |-> q, result |-> "noTaskCb",
          log |-> NoTaskCbReport.log, ret |-> NoTaskCbReport.ret,
          probe |-> NoProbe]
    ELSE IF throws
    THEN [m |-> DeleteTaskCb(m, r), q |-> q, result |-> "threw",
          log |-> "request_handled", ret |-> "throw", probe |-> NoProbe]
    ELSE [m |-> DeleteTaskCb(m, r), q |-> TaskCb(q, m[r]),
          result |-> "released", log |-> "request_handled",
          ret |-> "undefined",
          probe |-> Fire("request_handled",
                         ProbeQueue(q, TaskCb(q, m[r])).npending,
                         Len(ProbeQueue(q, TaskCb(q, m[r])).queued))]

\* The events of unit u after a call of afterRequest that ended as a did.
Handled(f, u, a) ==
    IF a.probe.name = "request_handled"
    THEN [f EXCEPT ![u].request_handled = @ + 1]
    ELSE f

\* afterRequest(req, res, route, err) called by the transport for unit u.
AfterRequest(u, throws) ==
    /\ ctor.result = "created"
    /\ u \in 1..Len(reqs)
    /\ IF u \in InFlight
       THEN reported' = reported \cup {u} /\ UNCHANGED extraCalls
       ELSE /\ extraCalls < MaxExtraCalls
            /\ extraCalls' = extraCalls + 1
            /\ UNCHANGED reported
    /\ LET a == AfterRequestOn(taskCbFromReqId, Queue, reqs[u], throws)
       IN /\ taskCbFromReqId' = a.m
          /\ SetQueue(a.q)
          /\ fired' = Handled(fired, u, a)
          /\ events' = Logged(events, u, a.probe)
          /\ last' = [op |-> "afterRequest", unit |-> u, result |-> a.result,
                      log |-> a.log, ret |-> a.ret, probe |-> a.probe]
    /\ UNCHANGED <<ctor, concurrency, queueTolerance, reqs, outcome,
                   startOrder, nextCalls>>

\* ---- doTask again, now that afterRequest is defined

\* Mutant of DoTaskBody: next() is called before the taskCb is stored.
DoTaskNextFirst(m, q, u, sync) ==
    LET a == IF sync
             THEN AfterRequestOn(m, q, reqs[u], FALSE)
             ELSE [m |-> m, q |-> q, result |-> "next", log |-> "queue_leave",
                   ret |-> "undefined", probe |-> Fire("queue_leave", 0, 0)]
    IN [a EXCEPT !.m = StoreTaskCb(a.m, reqs[u], u)]

\* The body of doTask for unit u: self.taskCbFromReqId[req_id] = taskCb,
\* then next().  The handlers behind next() may finish the request at once,
\* and then the 'after' handler calls afterRequest inside next() (sync).
DoTaskBody(m, q, u, sync) ==
    LET stored == StoreTaskCb(m, reqs[u], u)
    IN IF sync
       THEN AfterRequestOn(stored, q, reqs[u], FALSE)
       ELSE [m |-> stored, q |-> q, result |-> "next", log |-> "queue_leave",
             ret |-> "undefined", probe |-> Fire("queue_leave", 0, 0)]

\* The worker call of the oldest dispatched unit: task(callback), i.e.
\* doTask(taskCb).  throws: the queue_leave probe throws, before the taskCb
\* is stored and next() is called.
DoTask(sync, throws) ==
    /\ ctor.result = "created"
    /\ Len(immediates) > 0
    /\ LET u == Head(immediates)
           run == [Queue EXCEPT !.immediates = Tail(@)]
           a == DoTaskBody(taskCbFromReqId, run, u, sync)
       IN IF throws
          THEN /\ SetQueue(run)
               /\ last' = [op |-> "doTask", unit |-> u, result |-> "threw",
                           log |-> "queue_leave", ret |-> "throw",
                           probe |-> NoProbe]
               /\ UNCHANGED <<taskCbFromReqId, startOrder, nextCalls,
                              reported, fired, events>>
          ELSE /\ taskCbFromReqId' = a.m
               /\ startOrder' = Append(startOrder, u)
               /\ nextCalls' = [nextCalls EXCEPT ![u] = Append(@, "ok")]
               /\ reported' = IF sync THEN reported \cup {u} ELSE reported
               /\ fired' = Handled(fired, u, a)
               /\ events' = Logged(Logged(events, u,
                                          Fire("queue_leave", 0, 0)),
                                   u, IF sync THEN a.probe ELSE NoProbe)
               /\ SetQueue(DoTaskRelease(a.q, u))
               /\ last' = [op |-> "doTask", unit |-> u, result |-> a.result,
                           log |-> a.log, ret |-> a.ret, probe |-> a.probe]
    /\ UNCHANGED <<ctor, concurrency, queueTolerance, reqs, outcome,
                   extraCalls>>

Next ==
    \/ \E r \in FreshOrUsed : \E throws \in ProbeThrows : Wait(r, throws)
    \/ \E sync \in BOOLEAN : \E throws \in ProbeThrows : DoTask(sync, throws)
    \/ \E u \in Units : \E throws \in ProbeThrows : AfterRequest(u, throws)

Spec == Init /\ [][Next]_vars

\* The transport wired as in the example server: the throttle handler calls
\* wait for each request, and the 'after' handler calls afterRequest once
\* for each request that was handed on by next(), and once for each request
\* answered with the throttled error, right after it was rejected.
AfterHook(u, throws) ==
    /\ \/ u \in InFlight
       \/ last.op = "wait" /\ last.result = "throttled" /\ last.unit = u
    /\ AfterRequest(u, throws)

NextTransport ==
    \/ \E r \in FreshOrUsed : \E throws \in ProbeThrows : Wait(r, throws)
    \/ \E sync \in BOOLEAN : \E throws \in ProbeThrows : DoTask(sync, throws)
    \/ \E u \in Units : \E throws \in ProbeThrows : AfterHook(u, throws)

SpecTransport == Init /\ [][NextTransport]_vars

\* createThrottle with any options, then the transport on the throttle it
\* returned, if it returned one.
NextCreate ==
    \/ Create
    \/ \E r \in FreshOrUsed : \E throws \in ProbeThrows : Wait(r, throws)
    \/ \E sync \in BOOLEAN : \E throws \in ProbeThrows : DoTask(sync, throws)
    \/ \E u \in Units : \E throws \in ProbeThrows : AfterHook(u, throws)

SpecCreate == InitCreate /\ [][NextCreate]_vars

\* The transport on a throttle created with a DTrace provider.
InitObserved == InitWith("provider")

SpecObserved == InitObserved /\ [][NextTransport]_vars

\* The transport on a throttle whose provider's probes may throw.
InitFaulty == InitWith("faulty")

SpecFaulty == InitFaulty /\ [][NextTransport]_vars

\* The example wiring where no call is held back for ever: the worker call
\* scheduled by the queue runs, and the 'after' handler is called for every
\* request that was handed on.
FairTransport ==
    /\ WF_vars(\E sync \in BOOLEAN : DoTask(sync, FALSE))
    /\ WF_vars(\E u \in Units : u \in InFlight /\ AfterHook(u, FALSE))

SpecTransportFair == SpecTransport /\ FairTransport

\* A transport that gives every request an id of its own (restify's
\* default, a fresh uuid per request), with afterRequest called for any
\* known unit.
NextDistinct ==
    \/ \E throws \in ProbeThrows : Wait(Len(reqs) + 1, throws)
    \/ \E sync \in BOOLEAN : \E throws \in ProbeThrows : DoTask(sync, throws)
    \/ \E u \in Units : \E throws \in ProbeThrows : AfterRequest(u, throws)

SpecDistinct == Init /\ [][NextDistinct]_vars

\* ---- properties

Min(a, b) == IF a < b THEN a ELSE b
Max(a, b) == IF a > b THEN a ELSE b

Admitted == {u \in 1..Len(reqs) : outcome[u] = "admitted"}

\* No admitted unit has left the queue: each still waits or still holds a slot.
NoneReleased == \A u \in Admitted : u \in pending \/ u \in Range(queued)

Increasing(s) == \A i, j \in 1..Len(s) : i < j => s[i] < s[j]

\* Units in the order the queue dispatched them: those whose doTask ran,
\* then those whose worker call is still scheduled.
DispatchOrder == startOrder \o immediates

\* C1: in every reachable state the number of running tasks
\* (requestQueue.npending) is at least 0 and at most concurrency.
C1_RunningWithinConcurrency == 0 <= npending /\ npending <= concurrency

\* All slots are busy right after a completion released one.
C1_Witness ==
    /\ last.op = "afterRequest" /\ last.result = "released"
    /\ npending = concurrency

\* C2: in every reachable state the number of waiting tasks
\* (requestQueue.length()) is at least 0 and at most queueTolerance, so no
\* unit is ever enqueued beyond the tolerance.
C2_WaitingWithinTolerance == 0 <= Len(queued) /\ Len(queued) <= queueTolerance

\* A unit was just rejected with the wait list full.
C2_Witness ==
    /\ last.op = "wait" /\ last.result = "throttled"
    /\ Len(queued) = queueTolerance

\* C3: while no admitted unit has been released, the first
\* concurrency + queueTolerance calls of wait are admitted (concurrency of
\* them running, the others waiting) and every later call is rejected.
C3_FirstNPlusMAdmitted ==
    NoneReleased =>
        /\ \A u \in 1..Len(reqs) :
              outcome[u] = "admitted" <=> u <= concurrency + queueTolerance
        /\ npending = Min(Len(reqs), concurrency)
        /\ Len(queued) = Min(Max(Len(reqs) - concurrency, 0), queueTolerance)

\* N running, M waiting and the (N+M+1)-th call rejected, nothing released.
C3_Witness ==
    /\ NoneReleased
    /\ Len(reqs) = concurrency + queueTolerance + 1
    /\ outcome[Len(reqs)] = "throttled"
    /\ npending = concurrency /\ Len(queued) = queueTolerance

\* C6: units are dispatched in the order they were admitted: the dispatch
\* order and the wait list are both in admission order and every waiting
\* unit was admitted after every unit dispatched so far.
C6_FifoOrder ==
    /\ Increasing(DispatchOrder)
    /\ Increasing(queued)
    /\ \A u \in Range(queued) : \A v \in Range(DispatchOrder) : v < u

\* A completion has just let the head of the wait list run while a later
\* unit stays waiting.
C6_Witness ==
    /\ last.op = "afterRequest" /\ last.result = "released"
    /\ Len(queued) >= 1
    /\ Len(immediates) >= 1
    /\ immediates[Len(immediates)] < Head(queued)

\* C10: a call of wait rejects the unit exactly when the wait list holds
\* queueTolerance entries or more at the call; otherwise the unit is pushed:
\* it takes a slot at once when fewer than concurrency are taken, and is
\* appended to the wait list when not.
C10_RejectIffQueueFull ==
    [][Len(reqs') = Len(reqs) + 1 =>
        LET u == Len(reqs')
        IN /\ outcome'[u] = "throttled" <=> Len(queued) >= queueTolerance
           /\ outcome'[u] = "admitted" =>
                IF npending < concurrency
                THEN /\ npending' = npending + 1
                     /\ pending' = pending \cup {u}
                     /\ immediates' = Append(immediates, u)
                     /\ queued' = queued
                ELSE /\ queued' = Append(queued, u)
                     /\ npending' = npending
                     /\ pending' = pending
                     /\ immediates' = immediates]_vars

\* After a rejection, a later unit has been admitted and put last on the
\* wait list.
C10_Witness ==
    /\ last.op = "wait" /\ last.result = "admitted"
    /\ Len(queued) > 0 /\ queued[Len(queued)] = last.unit
    /\ \E u \in 1..Len(reqs) : outcome[u] = "throttled"

\* C4: a unit handed to the caller keeps a slot until afterRequest is
\* called for it: at least as many slots are taken as there are units that
\* were started and whose completion has not been reported.
C4_SlotHeldUntilAfterRequest == Cardinality(InFlight) <= npending

\* C5: afterRequest called for a unit in flight removes the entry of its
\* request id, leaves the other entries alone and frees one slot: with an
\* empty wait list npending drops by one, otherwise the head of the wait
\* list takes the slot, npending stays and the wait list loses its head.
C5_CompleteFreesOneSlot ==
    [][\A u \in InFlight : u \in reported' =>
        /\ reqs[u] \in DOMAIN taskCbFromReqId
        /\ taskCbFromReqId' = DeleteTaskCb(taskCbFromReqId, reqs[u])
        /\ IF queued = <<>>
           THEN /\ npending' = npending - 1
                /\ queued' = queued
                /\ immediates' = immediates
           ELSE /\ npending' = npending
                /\ queued' = Tail(queued)
                /\ immediates' = Append(immediates, Head(queued))]_vars

\* C7: completion is correlated per admitted unit: two started units that
\* carry the same request id each have their own taskCb entry while in
\* flight, and once completion has been reported for both, neither holds a
\* slot any more.
C7_UniqueCompletionKey ==
    \A u1, u2 \in Started :
        (u1 # u2 /\ reqs[u1] = reqs[u2]) =>
            /\ \A u \in {u1, u2} \cap InFlight :
                  /\ reqs[u] \in DOMAIN taskCbFromReqId
                  /\ taskCbFromReqId[reqs[u]] = u
            /\ {u1, u2} \subseteq reported => pending \cap {u1, u2} = {}

\* C8: afterRequest called again for a unit whose completion was already
\* reported changes neither npending, nor the wait list, nor the taskCb
\* entries, and starts no waiting task.
C8_SecondCompleteIsNoOp ==
    [][\A u \in reported :
        (last'.op = "afterRequest" /\ last'.unit = u
            /\ extraCalls' = extraCalls + 1) =>
          UNCHANGED <<npending, queued, pending, immediates,
                      taskCbFromReqId>>]_vars

\* What counts as signalling an error: the call throws or hands back an
\* error, or writes one to an error channel.
ErrorSignalled(op) == op.ret = "ContractViolation" \/ op.log = "error"

C11_RejectChangesNothing ==
    [][(Len(reqs') = Len(reqs) + 1 /\ outcome'[Len(reqs')] = "throttled") =>
        UNCHANGED <<npending, queued, pending, immediates,
                    taskCbFromReqId>>]_vars

\* A unit was just rejected while a started unit holds a slot and its
\* taskCb entry.
C11_Witness ==
    /\ last.op = "wait" /\ last.result = "throttled"
    /\ npending > 0
    /\ DOMAIN taskCbFromReqId # {}

\* C17: slots are given back by afterRequest alone.  In a step that is not
\* an afterRequest finding a taskCb, taken with all slots busy, the slots
\* stay busy with the same units, no waiting or arriving unit is
\* dispatched, and an arriving unit is put on the wait list while it has
\* room and rejected once it holds queueTolerance entries.
C17_JammedWithoutCompletion ==
    [][(last'.result # "released" /\ npending = concurrency) =>
        /\ npending' = npending
        /\ pending' = pending
        /\ Range(immediates') \subseteq Range(immediates)
        /\ Len(reqs') = Len(reqs) + 1 =>
              IF Len(queued) = queueTolerance
              THEN outcome'[Len(reqs')] = "throttled" /\ queued' = queued
              ELSE queued' = Append(queued, Len(reqs'))]_vars

\* The throttle is jammed: every slot is held by a started unit, no
\* completion was ever reported, the wait list is full and the last
\* arrival was rejected.
C17_Witness ==
    /\ npending = concurrency /\ Started = pending
    /\ Len(queued) = queueTolerance
    /\ reported = {} /\ extraCalls = 0
    /\ last.op = "wait" /\ last.result = "throttled"

\* C18: every taskCb entry belongs to a unit that was started and whose
\* completion has not been reported, under that unit's request id, and
\* every such unit has its entry.
C18_EntriesAreUnitsInFlight ==
    /\ \A r \in DOMAIN taskCbFromReqId :
          /\ taskCbFromReqId[r] \in InFlight
          /\ reqs[taskCbFromReqId[r]] = r
    /\ \A u \in InFlight :
          /\ reqs[u] \in DOMAIN taskCbFromReqId
          /\ taskCbFromReqId[reqs[u]] = u

\* C19: wait returns at once and calls the unit's next exactly once: with
\* the ThrottledError when the unit is rejected, and without argument when
\* its task runs, not before.
C19_NextCalledOnce ==
    /\ Len(nextCalls) = Len(reqs)
    /\ \A u \in 1..Len(reqs) :
          IF outcome[u] = "throttled"
          THEN nextCalls[u] = <<"err">>
          ELSE IF u \in Range(queued) \/ u \in Range(immediates)
               THEN nextCalls[u] = <<>>
               ELSE nextCalls[u] = <<"ok">>

C19_Witness ==
    /\ \E u \in 1..Len(reqs) : nextCalls[u] = <<"err">>
    /\ \E u \in 1..Len(reqs) : nextCalls[u] = <<"ok">>
    /\ last.op = "wait" /\ last.result = "admitted"
    /\ last.unit \in Range(queued) /\ nextCalls[last.unit] = <<>>

\* C20: when next() finishes the request synchronously, the afterRequest
\* made inside it finds the entry stored just before and frees the slot.
C20_SyncCompletionFindsEntry ==
    [][(last'.op = "doTask" /\ last'.unit \in reported') =>
        /\ last'.result = "released"
        /\ last'.unit \notin pending'
        /\ \A r \in DOMAIN taskCbFromReqId' :
              taskCbFromReqId'[r] # last'.unit]_vars

C20_Witness ==
    /\ last.op = "doTask" /\ last.unit \in reported
    /\ last.result = "released"
    /\ npending = concurrency

PositiveInteger(v) == IsNumber(v) /\ v.halves > 0 /\ v.halves % 2 = 0

\* C12: createThrottle returns a throttle exactly when concurrency and
\* queueTolerance are both positive integers, and otherwise throws and
\* leaves no throttle.
C12_CreatedIffPositiveIntegers ==
    ctor.result # "pending" =>
        /\ ctor.result = "created" <=>
              PositiveInteger(ctor.concurrency) /\
              PositiveInteger(ctor.queueTolerance)
        /\ ctor.result = "threw" => concurrency = 0 /\ reqs = <<>>

\* C13, as stated: a throttle made with concurrency 1 and queueTolerance 0
\* exists, admits and runs the first unit, and keeps no unit waiting.
C13_ZeroToleranceThrottle ==
    (/\ ctor.concurrency = Num(2)
     /\ ctor.queueTolerance = Num(0)
     /\ ctor.result # "pending") =>
        /\ ctor.result = "created"
        /\ queued = <<>>
        /\ Len(reqs) > 0 => outcome[1] = "admitted"

\* C13, amended: createThrottle with concurrency 1 and queueTolerance 0
\* throws.  With concurrency 1 and queueTolerance 1 a unit arriving at the
\* idle throttle is admitted and takes the slot, a unit arriving while the
\* slot is taken and nobody waits is admitted and waits, a unit arriving
\* while one waits is rejected and changes nothing, and when the slot is
\* given back the waiting unit takes it.
C13_OneSlotOneWaiter ==
    [][/\ (ctor.concurrency = Num(2) /\ ctor.queueTolerance = Num(0)) =>
              ctor'.result # "created"
       /\ (/\ ctor.result = "created"
           /\ ctor.concurrency = Num(2)
           /\ ctor.queueTolerance = Num(2)) =>
              /\ Len(reqs') = Len(reqs) + 1 =>
                    LET u == Len(reqs')
                    IN IF npending = 0
                       THEN /\ outcome'[u] = "admitted"
                            /\ pending' = {u} /\ queued' = <<>>
                       ELSE IF queued = <<>>
                       THEN /\ outcome'[u] = "admitted"
                            /\ pending' = pending /\ queued' = <<u>>
                       ELSE /\ outcome'[u] = "throttled"
                            /\ pending' = pending /\ queued' = queued
              /\ (Len(reqs') = Len(reqs) /\ pending' # pending) =>
                    IF queued = <<>>
                    THEN pending' = {}
                    ELSE pending' = {Head(queued)} /\ queued' = <<>>]_vars

C13_Witness ==
    /\ ctor.result = "created"
    /\ ctor.concurrency = Num(2) /\ ctor.queueTolerance = Num(2)
    /\ Len(reqs) = 3
    /\ outcome = <<"admitted", "admitted", "throttled">>
    /\ reported = {1} /\ pending = {2} /\ startOrder = <<1, 2>>

\* C14: a rejected request gets what the createThrottledError option
\* returns when the option is given, and the generic ThrottledError only
\* when it is not.
C14_RejectionErrorFromFactory ==
    (last.op = "wait" /\ last.result = "throttled") =>
        last.ret = IF ctor.createThrottledError = "function"
                   THEN "next(createThrottledError(throttle, req))"
                   ELSE "next(ThrottledError)"

\* C15: no call of wait, doTask or afterRequest ends with the exception of
\* a probe, and an afterRequest that finds a taskCb removes the entry and
\* frees the slot of the unit it belonged to, whatever the probe does.
C15_ProbeFailureContained ==
    [][/\ last'.ret # "throw"
       /\ (/\ last'.op = "afterRequest"
           /\ ~NoTaskCb(taskCbFromReqId, reqs[last'.unit])) =>
              /\ NoTaskCb(taskCbFromReqId', reqs[last'.unit])
              /\ taskCbFromReqId[reqs[last'.unit]] \notin pending']_vars

\* C16: with a provider, a request has one request_throttled event if it
\* was rejected and none otherwise, one request_handled event if it was
\* started and reported complete and none otherwise, and the counters of
\* these events are within 0..concurrency and 0..queueTolerance.
C16_OneEventPerOutcome ==
    /\ \A u \in 1..Len(reqs) :
          /\ fired[u].request_throttled =
                 IF outcome[u] = "throttled" THEN 1 ELSE 0
          /\ fired[u].request_handled = IF u \in reported THEN 1 ELSE 0
    /\ last.probe.name \in {"request_throttled", "request_handled"} =>
          /\ last.probe.inflight \in 0..concurrency
          /\ last.probe.qlen \in 0..queueTolerance

\* C21: the counters of a request_handled event are those before the slot
\* is given back: the running count includes the unit whose slot is freed
\* and the waiting count includes the unit that takes the slot next.
C21_HandledCountersBeforeRelease ==
    [][last'.probe.name = "request_handled" =>
        /\ last'.probe.inflight = npending
        /\ last'.probe.qlen = Len(queued)
        /\ pending \ pending' # {}
        /\ npending' + Len(queued') = npending + Len(queued) - 1
        /\ queued # <<>> =>
              /\ Head(queued) \in pending'
              /\ last'.probe.qlen = Len(queued') + 1]_vars

C21_Witness ==
    /\ last.op = "afterRequest" /\ last.probe.name = "request_handled"
    /\ last.probe.inflight = concurrency
    /\ last.probe.qlen = Len(queued) + 1
    /\ npending = concurrency

\* C24: whenever a unit is on the wait list every slot is taken; no unit
\* waits while a slot is free.
C24_WorkConserving == Len(queued) > 0 => npending = concurrency

C24_Witness ==
    /\ Len(queued) > 0 /\ npending = concurrency
    /\ last.op = "afterRequest" /\ last.result = "released"

\* C26: afterRequest for a unit that wait rejected, or for an admitted unit
\* still on the wait list, leaves the running count, the wait list, the
\* slots and the taskCb entries as they were.
C26_AfterRequestOfIdleUnitIsNoOp ==
    [][(/\ last'.op = "afterRequest"
        /\ \/ outcome[last'.unit] = "throttled"
           \/ last'.unit \in Range(queued)) =>
          UNCHANGED <<npending, queued, pending, immediates,
                      taskCbFromReqId>>]_vars

DistinctIds == \A i, j \in 1..Len(reqs) : i # j => reqs[i] # reqs[j]

\* C25: with distinct request ids the slots taken and the places on the
\* wait list are exactly those of the admitted units not yet completed,
\* and the taskCb entries exactly those of the started ones among them; so
\* once every admitted unit is completed nothing runs, nothing waits and
\* no entry is left.
C25_NoLeakAtQuiescence ==
    DistinctIds =>
        /\ pending \cup Range(queued) = Admitted \ reported
        /\ npending + Len(queued) = Cardinality(Admitted \ reported)
        /\ DOMAIN taskCbFromReqId = {reqs[u] : u \in InFlight}
        /\ Admitted \subseteq reported =>
              /\ npending = 0 /\ queued = <<>> /\ pending = {}
              /\ immediates = <<>> /\ taskCbFromReqId = <<>>

C25_Witness ==
    /\ DistinctIds
    /\ Cardinality(Admitted) >= 3 /\ Admitted \subseteq reported
    /\ \E u \in 1..Len(reqs) : outcome[u] = "throttled"
    /\ npending = 0 /\ taskCbFromReqId = <<>>

\* C23: with a provider, the events of a rejected request are
\* request_throttled alone, and those of an admitted one are queue_enter
\* from the wait call on, then queue_leave once its task has run, then
\* request_handled once it is completed, each once.
C23_EventOrderPerUnit ==
    \A u \in 1..Len(reqs) :
        IF outcome[u] = "throttled"
        THEN events[u] = <<"request_throttled">>
        ELSE IF u \in Range(queued) \/ u \in Range(immediates)
        THEN events[u] = <<"queue_enter">>
        ELSE IF u \in InFlight
        THEN events[u] = <<"queue_enter", "queue_leave">>
        ELSE events[u] = <<"queue_enter", "queue_leave", "request_handled">>

\* C22: when every started unit is reported complete, no admitted unit
\* stays for ever without having been started: each is eventually taken
\* from the wait list and its next is called.
NotYetRun(u) ==
    u \in 1..Len(reqs) /\ outcome[u] = "admitted" /\ u \notin Started

C22_WaitingUnitEventuallyRuns ==
    \A u \in Units : []<>(~NotYetRun(u))

C22_Witness ==
    /\ \E u \in 1..Len(reqs) : outcome[u] = "throttled"
    /\ Admitted \subseteq Started
    /\ Cardinality(Admitted) > concurrency

====
